---- MODULE Spec2Model ----
(***************************************************************************)
(* Model of package dotconfig (github.com/goaux/dotconfig): the candidate  *)
(* generators list / fileConfig.List and the resolvers Dir and File.       *)
(*                                                                         *)
(* A path is a sequence of one-character strings, so that the path/filepath *)
(* functions the package calls (Join, Clean, Base, Ext, Dir) are computed   *)
(* the way the Go standard library computes them on a Unix system.          *)
(***************************************************************************)
EXTENDS Integers, Sequences, FiniteSets, TLC

(***************************************************************************)
(* Bounds of the model.                                                    *)
(***************************************************************************)
\* number of calls (Dir, File or a direct use of a generator) in one behaviour
MaxCalls == 2
MaxChanges == 1

(***************************************************************************)
(* type fileExists and its constants                                       *)
(***************************************************************************)
NotExists == 0
BaseExists == 1
FileExists == 2

(***************************************************************************)
(* path/filepath on character sequences                                    *)
(***************************************************************************)
Sep == "/"

\* strings.Join(elems, "/") of a sequence of paths
RECURSIVE JoinSep(_)
JoinSep(es) ==
    IF es = <<>> THEN <<>>
    ELSE IF Len(es) = 1 THEN es[1]
    ELSE es[1] \o <<Sep>> \o JoinSep(Tail(es))

\* the elements of a path between its separators (empty ones included)
RECURSIVE Elems(_)
Elems(p) ==
    IF p = <<>> THEN << <<>> >>
    ELSE LET rest == Elems(Tail(p)) IN
         IF Head(p) = Sep THEN << <<>> >> \o rest
         ELSE << <<Head(p)>> \o Head(rest) >> \o Tail(rest)

\* the lexical processing of filepath.Clean: drop empty and "." elements,
\* let ".." cancel the element before it, drop ".." at the root
RECURSIVE Lex(_, _, _)
Lex(es, out, rooted) ==
    IF es = <<>> THEN out
    ELSE LET e == Head(es) IN
         IF e = <<>> \/ e = <<".">> THEN Lex(Tail(es), out, rooted)
         ELSE IF e = <<".", ".">>
              THEN IF out # <<>> /\ out[Len(out)] # <<".", ".">>
                   THEN Lex(Tail(es), SubSeq(out, 1, Len(out) - 1), rooted)
                   ELSE IF rooted THEN Lex(Tail(es), out, rooted)
                        ELSE Lex(Tail(es), Append(out, e), rooted)
              ELSE Lex(Tail(es), Append(out, e), rooted)

\* filepath.Clean
Clean(p) ==
    IF p = <<>> THEN <<".">>
    ELSE LET rooted == (p[1] = Sep)
             body == JoinSep(Lex(Elems(p), <<>>, rooted))
         IN  IF rooted THEN <<Sep>> \o body
             ELSE IF body = <<>> THEN <<".">> ELSE body

\* filepath.Join: the leading empty elements are skipped, the rest joined
\* with separators and cleaned; all empty gives the empty path
RECURSIVE Join(_)
Join(es) ==
    IF es = <<>> THEN <<>>
    ELSE IF es[1] = <<>> THEN Join(Tail(es))
    ELSE Clean(JoinSep(es))

\* index of the last separator of p, 0 if it has none
RECURSIVE LastSep(_)
LastSep(p) ==
    IF p = <<>> THEN 0
    ELSE IF p[Len(p)] = Sep THEN Len(p)
    ELSE LastSep(SubSeq(p, 1, Len(p) - 1))

\* p without its trailing separators
RECURSIVE StripSep(_)
StripSep(p) ==
    IF p # <<>> /\ p[Len(p)] = Sep THEN StripSep(SubSeq(p, 1, Len(p) - 1))
    ELSE p

\* filepath.Base
Base(p) ==
    IF p = <<>> THEN <<".">>
    ELSE LET q == StripSep(p)
             r == SubSeq(q, LastSep(q) + 1, Len(q))
         IN  IF r = <<>> THEN <<Sep>> ELSE r

\* filepath.Ext: the suffix from the last dot of the last element
RECURSIVE Ext(_)
Ext(p) ==
    IF p = <<>> \/ p[Len(p)] = Sep THEN <<>>
    ELSE IF p[Len(p)] = "." THEN <<".">>
    ELSE LET e == Ext(SubSeq(p, 1, Len(p) - 1)) IN
         IF e = <<>> THEN <<>> ELSE Append(e, p[Len(p)])

\* filepath.Dir
filepathDir(p) == Clean(SubSeq(p, 1, LastSep(p)))

(***************************************************************************)
(* Inputs and environments of the model.                                   *)
(***************************************************************************)
\* application names passed to Dir and File
Apps == { <<"a">> }

\* file names passed to File: ".", "/", "", "c.y", "p/c.y", "a"
Names == { <<".">>, <<Sep>>, <<>>, <<"c", ".", "y">>,
           <<"p", Sep, "c", ".", "y">>, <<"a">> }

\* values of $XDG_CONFIG_HOME: unset or empty, "/x", and "/h/lib/", which
\* is not clean and makes the XDG candidate equal the home lib candidate
XdgValues == { <<>>, <<Sep, "x">>, <<Sep, "h", Sep, "l", "i", "b", Sep>> }

\* results of os.UserHomeDir: an error, or "/h"
HomeValues == { [dir |-> <<>>, err |-> TRUE],
                [dir |-> <<Sep, "h">>, err |-> FALSE] }

\* what os.Stat finds at a path: nothing, a directory, or another entry
Kinds == { "none", "dir", "file" }

VARIABLES
    xdgEnv,     \* the value of $XDG_CONFIG_HOME
    homeEnv,    \* the result of os.UserHomeDir
    fs,         \* the file system as far as os.Stat has looked: path -> kind
    pc,         \* position of the running call
    fn,         \* the running entry point: "Dir", "File", "list", "List"
    app,        \* Dir's and File's parameter app
    name,       \* File's parameter name
    cfg,        \* File's cfg (*fileConfig)
    fallback,   \* Dir's and File's local variable fallback
    retPath,    \* the named result dir / path
    retStatus,  \* the named result exist (Dir) / status (File)
    log,        \* the calls made by the running call, in order
    history,    \* the completed Dir and File calls, in order
    calls,      \* number of calls started
    other       \* the call of another goroutine, while it does not run

vars == <<xdgEnv, homeEnv, fs, pc, fn, app, name, cfg, fallback,
          retPath, retStatus, log, history, calls, other>>

(***************************************************************************)
(* The substitutable lookups xdgConfigHome, userHomeDir, dirExists and     *)
(* checkFile.                                                              *)
(***************************************************************************)
\* var xdgConfigHome: os.Getenv("XDG_CONFIG_HOME")
xdgConfigHome == xdgEnv

\* var userHomeDir = os.UserHomeDir
userHomeDir == homeEnv

\* os.Stat on file system f: the outcomes [fs, kind]. A path not looked at
\* before holds any kind; one looked at before holds what was found then, so
\* the file system is an arbitrary one that does not change.
Stat(f, p) ==
    IF p \in DOMAIN f THEN { [fs |-> f, kind |-> f[p]] }
    ELSE { [fs |-> f @@ (p :> k), kind |-> k] : k \in Kinds }

\* var dirExists: err == nil && info.IsDir()
dirExists(f, dir) ==
    { [fs |-> s.fs, exist |-> (s.kind = "dir")] : s \in Stat(f, dir) }

\* checkFile asking for a regular entry: a directory at name is not a file
checkFile_RegularOnly(f, file) ==
    UNION { IF s.kind = "file"
            THEN { [fs |-> s.fs, status |-> FileExists] }
            ELSE { [fs |-> t.fs,
                    status |-> IF t.kind # "none" THEN BaseExists ELSE NotExists]
                   : t \in Stat(s.fs, filepathDir(file)) }
          : s \in Stat(f, file) }

\* var checkFile: FileExists if name can be stat-ed, else BaseExists if its
\* directory can, else NotExists
checkFile(f, file) ==
    UNION { IF s.kind # "none"
            THEN { [fs |-> s.fs, status |-> FileExists] }
            ELSE { [fs |-> t.fs,
                    status |-> IF t.kind # "none" THEN BaseExists ELSE NotExists]
                   : t \in Stat(s.fs, filepathDir(file)) }
          : s \in Stat(f, file) }

\* newFileConfig replacing only ".", not "/", by the application name
newFileConfig_DotOnly(a, file) ==
    LET b == Base(file) IN
    [App |-> a, File |-> IF b = <<".">> THEN a ELSE b]

\* func newFileConfig
newFileConfig(a, file) ==
    LET b == Base(file) IN
    [App |-> a, File |-> IF b = <<".">> \/ b = <<Sep>> THEN a ELSE b]

NoConfig == [App |-> <<>>, File |-> <<>>]

(***************************************************************************)
(* The candidate paths, in the order the generators yield them.            *)
(***************************************************************************)
DotConfig == <<".", "c", "o", "n", "f", "i", "g">>
Lib == <<"l", "i", "b">>

\* listWithXDG: filepath.Join(xdg, app)
xdgDir(xdg, a) == Join(<<xdg, a>>)
\* listWithNoXDG: filepath.Join(home, ".config", app)
homeConfigDir(home, a) == Join(<<home, DotConfig, a>>)
\* listHome: filepath.Join(home, "lib", app)
homeLibDir(home, a) == Join(<<home, Lib, a>>)
\* listHome: filepath.Join(home, "."+app)
homeDotDir(home, a) == Join(<<home, <<".">> \o a>>)

\* ListWithXDG: filepath.Join(xdg, cfg.App, cfg.File)
xdgFile(xdg, c) == Join(<<xdg, c.App, c.File>>)
\* ListWithNoXDG: filepath.Join(home, ".config", cfg.App, cfg.File)
homeConfigFile(home, c) == Join(<<home, DotConfig, c.App, c.File>>)
\* ListHome: filepath.Join(home, "lib", cfg.App, cfg.File)
homeLibFile(home, c) == Join(<<home, Lib, c.App, c.File>>)
\* ListHome: filepath.Join(home, "."+cfg.App, cfg.File)
homeDotFile(home, c) == Join(<<home, <<".">> \o c.App, c.File>>)
\* the extension candidate built without the extension
homeExtFile_NoExt(home, c) == Join(<<home, <<".">> \o c.App>>)

\* ListHome: filepath.Join(home, "."+cfg.App+filepath.Ext(cfg.File))
homeExtFile(home, c) == Join(<<home, <<".">> \o c.App \o Ext(c.File)>>)

\* Dir: "." + app
localDir(a) == <<".">> \o a
\* File: filepath.Join("."+app, cfg.File)
localFile(a, c) == Join(<< <<".">> \o a, c.File >>)
\* the local fallback built without the extension
localExtFile_NoExt(a, c) == <<".">> \o a

\* File: "." + app + filepath.Ext(cfg.File)
localExtFile(a, c) == <<".">> \o a \o Ext(c.File)

(***************************************************************************)
(* Events of the log.                                                      *)
(***************************************************************************)
Event(op, path, out) == [op |-> op, path |-> path, out |-> out]

\* yield is logged when it returns, after the calls its body made
Yielded(path, cont) == Event("yield", path, cont)

(***************************************************************************)
(* The consumers of the generators: the bodies of the range loops of Dir   *)
(* and File, and the yield functions of the tests. Each gives the outcomes *)
(* of one call of yield: the file system after it, whether the generator   *)
(* is to continue, the consumer's variables and the calls it made.         *)
(***************************************************************************)
\* DirLoop with "fallback = dir" not guarded by fallback == "": the last
\* candidate checked is kept
DirLoop_LastFallback(dir) ==
    { [fs |-> d.fs,
       cont |-> ~d.exist,
       fallback |-> IF ~d.exist THEN dir ELSE fallback,
       retPath |-> IF d.exist THEN dir ELSE retPath,
       retStatus |-> IF d.exist THEN TRUE ELSE retStatus,
       events |-> << Event("dirExists", dir, d.exist) >>]
      : d \in dirExists(fs, dir) }

\* Dir, the body of "for dir := range list(app)"
DirLoop(dir) ==
    { [fs |-> d.fs,
       cont |-> ~d.exist,
       fallback |-> IF ~d.exist /\ fallback = <<>> THEN dir ELSE fallback,
       retPath |-> IF d.exist THEN dir ELSE retPath,
       retStatus |-> IF d.exist THEN TRUE ELSE retStatus,
       events |-> << Event("dirExists", dir, d.exist) >>]
      : d \in dirExists(fs, dir) }

\* FileLoop returning on "check != NotExists": a candidate whose directory
\* exists is taken for a hit
FileLoop_BaseIsHit(file) ==
    { [fs |-> c.fs,
       cont |-> (c.status = NotExists),
       fallback |-> IF c.status = NotExists /\ fallback = <<>>
                    THEN file ELSE fallback,
       retPath |-> IF c.status # NotExists THEN file ELSE retPath,
       retStatus |-> IF c.status # NotExists THEN c.status ELSE retStatus,
       events |-> << Event("checkFile", file, c.status) >>]
      : c \in checkFile(fs, file) }

\* FileLoop with "fallback = file" not guarded by fallback == ""
FileLoop_LastFallback(file) ==
    { [fs |-> c.fs,
       cont |-> (c.status # FileExists),
       fallback |-> IF c.status # FileExists THEN file ELSE fallback,
       retPath |-> IF c.status = FileExists THEN file ELSE retPath,
       retStatus |-> IF c.status = FileExists THEN c.status ELSE retStatus,
       events |-> << Event("checkFile", file, c.status) >>]
      : c \in checkFile(fs, file) }

\* File, the body of "for file := range cfg.List()"
FileLoop(file) ==
    { [fs |-> c.fs,
       cont |-> (c.status # FileExists),
       fallback |-> IF c.status # FileExists /\ fallback = <<>>
                    THEN file ELSE fallback,
       retPath |-> IF c.status = FileExists THEN file ELSE retPath,
       retStatus |-> IF c.status = FileExists THEN c.status ELSE retStatus,
       events |-> << Event("checkFile", file, c.status) >>]
      : c \in checkFile(fs, file) }

\* the yield functions of the tests: collect the path and continue
\* (TestList, TestFileConfig_List) or stop (Test...EarlyTermination)
TestYield(path) ==
    { [fs |-> fs, cont |-> c, fallback |-> fallback, retPath |-> retPath,
       retStatus |-> retStatus, events |-> <<>>] : c \in BOOLEAN }

yield(path) ==
    CASE fn = "Dir" -> DirLoop(path)
      [] fn = "File" -> FileLoop(path)
      [] OTHER -> TestYield(path)

\* a completed call of Dir or File
Completed(path, status) ==
    [fn |-> fn, app |-> app, name |-> name, path |-> path, status |-> status]

\* where control goes when the generator returns without having been stopped:
\* to the code after the loop of Dir and File; a test is over
AfterLoop == IF fn \in {"Dir", "File"} THEN "afterLoop" ELSE "done"

\* the effect of one call of yield with outcome o; a stop inside Dir or File
\* is their return statement inside the loop
Consume(o) ==
    /\ fs' = o.fs
    /\ fallback' = o.fallback
    /\ retPath' = o.retPath
    /\ retStatus' = o.retStatus
    /\ history' = IF ~o.cont /\ fn \in {"Dir", "File"}
                  THEN Append(history, Completed(o.retPath, o.retStatus))
                  ELSE history

\* what belongs to one call: its position, parameters, locals and results
Frame ==
    [pc |-> pc, fn |-> fn, app |-> app, name |-> name, cfg |-> cfg,
     fallback |-> fallback, retPath |-> retPath, retStatus |-> retStatus,
     log |-> log]

IdleFrame ==
    [pc |-> "idle", fn |-> "none", app |-> <<>>, name |-> <<>>,
     cfg |-> NoConfig, fallback |-> <<>>, retPath |-> <<>>,
     retStatus |-> FALSE, log |-> <<>>]

(***************************************************************************)
(* Init: no call is running; the environment is any of the modelled ones.  *)
(***************************************************************************)
Init ==
    /\ xdgEnv \in XdgValues
    /\ homeEnv \in HomeValues
    /\ fs = <<>>
    /\ pc = "idle"
    /\ fn = "none"
    /\ app = <<>>
    /\ name = <<>>
    /\ cfg = NoConfig
    /\ fallback = <<>>
    /\ retPath = <<>>
    /\ retStatus = FALSE
    /\ log = <<>>
    /\ history = <<>>
    /\ calls = 0
    /\ other = IdleFrame

\* a call starts when none is running
Start(f, a, n, c, status, at) ==
    /\ pc \in {"idle", "done"}
    /\ calls < MaxCalls
    /\ calls' = calls + 1
    /\ fn' = f
    /\ app' = a
    /\ name' = n
    /\ cfg' = c
    /\ fallback' = <<>>
    /\ retPath' = <<>>
    /\ retStatus' = status
    /\ log' = <<>>
    /\ pc' = at
    /\ UNCHANGED <<other, xdgEnv, homeEnv, fs, history>>

\* Dir(app): var fallback string; range over list(app)
DirCall == \E a \in Apps : Start("Dir", a, <<>>, NoConfig, FALSE, "list")

\* File(app, name): cfg := newFileConfig(app, name); range over cfg.List()
FileCall ==
    \E a \in Apps, n \in Names :
        Start("File", a, n, newFileConfig(a, n), NotExists, "List")

\* a test ranging over list(app) with its own yield
TestListCall == \E a \in Apps : Start("list", a, <<>>, NoConfig, FALSE, "list")

\* a test ranging over newFileConfig(app, name).List() with its own yield
TestFileListCall ==
    \E a \in Apps, n \in Names :
        Start("List", a, n, newFileConfig(a, n), FALSE, "List")

(***************************************************************************)
(* The directory generator: list, listWithXDG, listWithNoXDG, listHome.    *)
(***************************************************************************)
\* list that never takes the XDG branch
list_IgnoreXDG ==
    /\ pc = "list"
    /\ log' = Append(log, Event("xdgConfigHome", <<>>, xdgConfigHome))
    /\ pc' = "listWithNoXDG"
    /\ UNCHANGED <<other, xdgEnv, homeEnv, fs, fn, app, name, cfg, fallback,
                   retPath, retStatus, history, calls>>

\* func list: branch on xdgConfigHome()
list ==
    /\ pc = "list"
    /\ log' = Append(log, Event("xdgConfigHome", <<>>, xdgConfigHome))
    /\ pc' = IF xdgConfigHome # <<>> THEN "listWithXDG" ELSE "listWithNoXDG"
    /\ UNCHANGED <<other, xdgEnv, homeEnv, fs, fn, app, name, cfg, fallback,
                   retPath, retStatus, history, calls>>

\* listWithXDG that does not test what yield returns
listWithXDG_NoCheck ==
    /\ pc = "listWithXDG"
    /\ LET path == xdgDir(xdgConfigHome, app) IN
       \E o \in yield(path) :
          /\ Consume(o)
          /\ log' = log \o o.events \o
                     << Yielded(path, o.cont),
                        Event("userHomeDir", <<>>, userHomeDir.err) >>
          /\ pc' = IF ~userHomeDir.err THEN "listHome" ELSE AfterLoop
    /\ UNCHANGED <<other, xdgEnv, homeEnv, fn, app, name, cfg, calls>>

\* func listWithXDG: yield xdg/app; if it continues, look up home
listWithXDG ==
    /\ pc = "listWithXDG"
    /\ LET path == xdgDir(xdgConfigHome, app) IN
       \E o \in yield(path) :
          /\ Consume(o)
          /\ IF o.cont
             THEN /\ log' = log \o o.events \o
                            << Yielded(path, TRUE),
                               Event("userHomeDir", <<>>, userHomeDir.err) >>
                  /\ pc' = IF ~userHomeDir.err THEN "listHome" ELSE AfterLoop
             ELSE /\ log' = log \o o.events \o << Yielded(path, FALSE) >>
                  /\ pc' = "done"
    /\ UNCHANGED <<other, xdgEnv, homeEnv, fn, app, name, cfg, calls>>

\* listWithNoXDG giving up on the error of userHomeDir: the call panics
listWithNoXDG_Abort ==
    /\ pc = "listWithNoXDG"
    /\ IF ~userHomeDir.err
       THEN LET path == homeConfigDir(userHomeDir.dir, app) IN
            \E o \in yield(path) :
               /\ Consume(o)
               /\ log' = log \o << Event("userHomeDir", <<>>, FALSE) >>
                             \o o.events \o << Yielded(path, o.cont) >>
               /\ pc' = IF o.cont THEN "listHome" ELSE "done"
       ELSE /\ log' = Append(log, Event("userHomeDir", <<>>, TRUE))
            /\ pc' = "panic"
            /\ UNCHANGED <<fs, fallback, retPath, retStatus, history>>
    /\ UNCHANGED <<other, xdgEnv, homeEnv, fn, app, name, cfg, calls>>

\* func listWithNoXDG: look up home; if there is one, yield home/.config/app
listWithNoXDG ==
    /\ pc = "listWithNoXDG"
    /\ IF ~userHomeDir.err
       THEN LET path == homeConfigDir(userHomeDir.dir, app) IN
            \E o \in yield(path) :
               /\ Consume(o)
               /\ log' = log \o << Event("userHomeDir", <<>>, FALSE) >>
                             \o o.events \o << Yielded(path, o.cont) >>
               /\ pc' = IF o.cont THEN "listHome" ELSE "done"
       ELSE /\ log' = Append(log, Event("userHomeDir", <<>>, TRUE))
            /\ pc' = AfterLoop
            /\ UNCHANGED <<fs, fallback, retPath, retStatus, history>>
    /\ UNCHANGED <<other, xdgEnv, homeEnv, fn, app, name, cfg, calls>>

\* func listHome, first yield: home/lib/app
listHomeLib ==
    /\ pc = "listHome"
    /\ LET path == homeLibDir(userHomeDir.dir, app) IN
       \E o \in yield(path) :
          /\ Consume(o)
          /\ log' = log \o o.events \o << Yielded(path, o.cont) >>
          /\ pc' = IF o.cont THEN "listHomeDot" ELSE "done"
    /\ UNCHANGED <<other, xdgEnv, homeEnv, fn, app, name, cfg, calls>>

\* func listHome, second yield: home/.app; its answer is not used
listHomeDot ==
    /\ pc = "listHomeDot"
    /\ LET path == homeDotDir(userHomeDir.dir, app) IN
       \E o \in yield(path) :
          /\ Consume(o)
          /\ log' = log \o o.events \o << Yielded(path, o.cont) >>
          /\ pc' = IF o.cont THEN AfterLoop ELSE "done"
    /\ UNCHANGED <<other, xdgEnv, homeEnv, fn, app, name, cfg, calls>>

listHome == listHomeLib \/ listHomeDot

(***************************************************************************)
(* The file generator: the methods List... of fileConfig.                  *)
(***************************************************************************)
\* func (cfg *fileConfig) List: branch on xdgConfigHome()
List ==
    /\ pc = "List"
    /\ log' = Append(log, Event("xdgConfigHome", <<>>, xdgConfigHome))
    /\ pc' = IF xdgConfigHome # <<>> THEN "ListWithXDG" ELSE "ListWithNoXDG"
    /\ UNCHANGED <<other, xdgEnv, homeEnv, fs, fn, app, name, cfg, fallback,
                   retPath, retStatus, history, calls>>

\* func (cfg *fileConfig) ListWithXDG
ListWithXDG ==
    /\ pc = "ListWithXDG"
    /\ LET path == xdgFile(xdgConfigHome, cfg) IN
       \E o \in yield(path) :
          /\ Consume(o)
          /\ IF o.cont
             THEN /\ log' = log \o o.events \o
                            << Yielded(path, TRUE),
                               Event("userHomeDir", <<>>, userHomeDir.err) >>
                  /\ pc' = IF ~userHomeDir.err THEN "ListHome" ELSE AfterLoop
             ELSE /\ log' = log \o o.events \o << Yielded(path, FALSE) >>
                  /\ pc' = "done"
    /\ UNCHANGED <<other, xdgEnv, homeEnv, fn, app, name, cfg, calls>>

\* func (cfg *fileConfig) ListWithNoXDG
ListWithNoXDG ==
    /\ pc = "ListWithNoXDG"
    /\ IF ~userHomeDir.err
       THEN LET path == homeConfigFile(userHomeDir.dir, cfg) IN
            \E o \in yield(path) :
               /\ Consume(o)
               /\ log' = log \o << Event("userHomeDir", <<>>, FALSE) >>
                             \o o.events \o << Yielded(path, o.cont) >>
               /\ pc' = IF o.cont THEN "ListHome" ELSE "done"
       ELSE /\ log' = Append(log, Event("userHomeDir", <<>>, TRUE))
            /\ pc' = AfterLoop
            /\ UNCHANGED <<fs, fallback, retPath, retStatus, history>>
    /\ UNCHANGED <<other, xdgEnv, homeEnv, fn, app, name, cfg, calls>>

\* func (cfg *fileConfig) ListHome, first yield: home/lib/app/file
ListHomeLib ==
    /\ pc = "ListHome"
    /\ LET path == homeLibFile(userHomeDir.dir, cfg) IN
       \E o \in yield(path) :
          /\ Consume(o)
          /\ log' = log \o o.events \o << Yielded(path, o.cont) >>
          /\ pc' = IF o.cont THEN "ListHomeDot" ELSE "done"
    /\ UNCHANGED <<other, xdgEnv, homeEnv, fn, app, name, cfg, calls>>

\* func (cfg *fileConfig) ListHome, second yield: home/.app/file
ListHomeDot ==
    /\ pc = "ListHomeDot"
    /\ LET path == homeDotFile(userHomeDir.dir, cfg) IN
       \E o \in yield(path) :
          /\ Consume(o)
          /\ log' = log \o o.events \o << Yielded(path, o.cont) >>
          /\ pc' = IF o.cont THEN "ListHomeExt" ELSE "done"
    /\ UNCHANGED <<other, xdgEnv, homeEnv, fn, app, name, cfg, calls>>

\* ListHomeExt that leaves out home/.app+ext when the extension is empty
ListHomeExt_SkipEmptyExt ==
    /\ pc = "ListHomeExt"
    /\ IF Ext(cfg.File) = <<>>
       THEN /\ pc' = AfterLoop
            /\ UNCHANGED <<fs, fallback, retPath, retStatus, log, history>>
       ELSE LET path == homeExtFile(userHomeDir.dir, cfg) IN
            \E o \in yield(path) :
               /\ Consume(o)
               /\ log' = log \o o.events \o << Yielded(path, o.cont) >>
               /\ pc' = IF o.cont THEN AfterLoop ELSE "done"
    /\ UNCHANGED <<other, xdgEnv, homeEnv, fn, app, name, cfg, calls>>

\* func (cfg *fileConfig) ListHome, third yield: home/.app+ext; its answer
\* is not used
ListHomeExt ==
    /\ pc = "ListHomeExt"
    /\ LET path == homeExtFile(userHomeDir.dir, cfg) IN
       \E o \in yield(path) :
          /\ Consume(o)
          /\ log' = log \o o.events \o << Yielded(path, o.cont) >>
          /\ pc' = IF o.cont THEN AfterLoop ELSE "done"
    /\ UNCHANGED <<other, xdgEnv, homeEnv, fn, app, name, cfg, calls>>

ListHome == ListHomeLib \/ ListHomeDot \/ ListHomeExt

(***************************************************************************)
(* The code of Dir and File after their loops.                             *)
(***************************************************************************)
\* DirReturn that returns ".app" with false, without looking
DirReturn_ForcedFalse ==
    /\ pc = "afterLoop"
    /\ fn = "Dir"
    /\ retPath' = (IF fallback = <<>> THEN localDir(app) ELSE fallback)
    /\ retStatus' = FALSE
    /\ history' = Append(history, Completed(retPath', FALSE))
    /\ pc' = "done"
    /\ UNCHANGED <<other, xdgEnv, homeEnv, fs, fn, app, name, cfg, fallback, log, calls>>

\* Dir after its loop: with no candidate seen, ".app" and whether it exists;
\* else the first candidate and false
DirReturn ==
    /\ pc = "afterLoop"
    /\ fn = "Dir"
    /\ IF fallback = <<>>
       THEN LET dir == localDir(app) IN
            \E d \in dirExists(fs, dir) :
               /\ fs' = d.fs
               /\ retPath' = dir
               /\ retStatus' = d.exist
               /\ log' = Append(log, Event("dirExists", dir, d.exist))
               /\ history' = Append(history, Completed(dir, d.exist))
       ELSE /\ retPath' = fallback
            /\ retStatus' = FALSE
            /\ history' = Append(history, Completed(fallback, FALSE))
            /\ UNCHANGED <<fs, log>>
    /\ pc' = "done"
    /\ UNCHANGED <<other, xdgEnv, homeEnv, fn, app, name, cfg, fallback, calls>>

\* FileReturn that returns the fallback as NotExists, without looking again
FileReturn_NotExists ==
    /\ pc = "afterLoop"
    /\ fn = "File"
    /\ IF fallback = <<>>
       THEN LET file == localFile(app, cfg) IN
            \E c \in checkFile(fs, file) :
               IF c.status = FileExists
               THEN /\ fs' = c.fs
                    /\ fallback' = fallback
                    /\ retPath' = file
                    /\ retStatus' = c.status
                    /\ log' = Append(log, Event("checkFile", file, c.status))
                    /\ history' = Append(history, Completed(file, c.status))
               ELSE LET fb == localExtFile(app, cfg) IN
                    \E c2 \in checkFile(c.fs, fb) :
                       /\ fs' = c2.fs
                       /\ fallback' = fb
                       /\ retPath' = fb
                       /\ retStatus' = c2.status
                       /\ log' = log \o << Event("checkFile", file, c.status),
                                           Event("checkFile", fb, c2.status) >>
                       /\ history' = Append(history, Completed(fb, c2.status))
       ELSE /\ retPath' = fallback
            /\ retStatus' = NotExists
            /\ history' = Append(history, Completed(fallback, NotExists))
            /\ UNCHANGED <<fs, fallback, log>>
    /\ pc' = "done"
    /\ UNCHANGED <<other, xdgEnv, homeEnv, fn, app, name, cfg, calls>>

\* FileReturn that returns the status File saw in its loop for the fallback
FileReturn_NoRecheck ==
    /\ pc = "afterLoop"
    /\ fn = "File"
    /\ IF fallback = <<>>
       THEN LET file == localFile(app, cfg) IN
            \E c \in checkFile(fs, file) :
               IF c.status = FileExists
               THEN /\ fs' = c.fs
                    /\ fallback' = fallback
                    /\ retPath' = file
                    /\ retStatus' = c.status
                    /\ log' = Append(log, Event("checkFile", file, c.status))
                    /\ history' = Append(history, Completed(file, c.status))
               ELSE LET fb == localExtFile(app, cfg) IN
                    \E c2 \in checkFile(c.fs, fb) :
                       /\ fs' = c2.fs
                       /\ fallback' = fb
                       /\ retPath' = fb
                       /\ retStatus' = c2.status
                       /\ log' = log \o << Event("checkFile", file, c.status),
                                           Event("checkFile", fb, c2.status) >>
                       /\ history' = Append(history, Completed(fb, c2.status))
       ELSE LET seen == SelectSeq(log, LAMBDA e : e.op = "checkFile")[1].out IN
            /\ retPath' = fallback
            /\ retStatus' = seen
            /\ history' = Append(history, Completed(fallback, seen))
            /\ UNCHANGED <<fs, fallback, log>>
    /\ pc' = "done"
    /\ UNCHANGED <<other, xdgEnv, homeEnv, fn, app, name, cfg, calls>>

\* File after its loop: with no candidate seen, ".app/file" if it exists,
\* else ".app"+ext; then the fallback with its status checked again
FileReturn ==
    /\ pc = "afterLoop"
    /\ fn = "File"
    /\ IF fallback = <<>>
       THEN LET file == localFile(app, cfg) IN
            \E c \in checkFile(fs, file) :
               IF c.status = FileExists
               THEN /\ fs' = c.fs
                    /\ fallback' = fallback
                    /\ retPath' = file
                    /\ retStatus' = c.status
                    /\ log' = Append(log, Event("checkFile", file, c.status))
                    /\ history' = Append(history, Completed(file, c.status))
               ELSE LET fb == localExtFile(app, cfg) IN
                    \E c2 \in checkFile(c.fs, fb) :
                       /\ fs' = c2.fs
                       /\ fallback' = fb
                       /\ retPath' = fb
                       /\ retStatus' = c2.status
                       /\ log' = log \o << Event("checkFile", file, c.status),
                                           Event("checkFile", fb, c2.status) >>
                       /\ history' = Append(history, Completed(fb, c2.status))
       ELSE \E c \in checkFile(fs, fallback) :
               /\ fs' = c.fs
               /\ fallback' = fallback
               /\ retPath' = fallback
               /\ retStatus' = c.status
               /\ log' = Append(log, Event("checkFile", fallback, c.status))
               /\ history' = Append(history, Completed(fallback, c.status))
    /\ pc' = "done"
    /\ UNCHANGED <<other, xdgEnv, homeEnv, fn, app, name, cfg, calls>>

Next ==
    \/ DirCall
    \/ FileCall
    \/ TestListCall
    \/ TestFileListCall
    \/ list
    \/ listWithXDG
    \/ listWithNoXDG
    \/ listHome
    \/ List
    \/ ListWithXDG
    \/ ListWithNoXDG
    \/ ListHome
    \/ DirReturn
    \/ FileReturn

Spec == Init /\ [][Next]_vars

(***************************************************************************)
(* A file system that changes under a running call: something outside the  *)
(* program creates, removes or replaces a path that os.Stat has looked at. *)
(* (A change to a path not yet looked at is the same as another file       *)
(* system to begin with.)                                                  *)
(***************************************************************************)
Changes == SelectSeq(log, LAMBDA e : e.op = "fsChange")

FsChange ==
    /\ fn \in {"Dir", "File"}
    /\ pc \notin {"idle", "done"}
    /\ Len(Changes) < MaxChanges
    /\ \E p \in DOMAIN fs :
          \E k \in Kinds \ {fs[p]} :
             /\ fs' = [fs EXCEPT ![p] = k]
             /\ log' = Append(log, Event("fsChange", p, k))
    /\ UNCHANGED <<other, xdgEnv, homeEnv, pc, fn, app, name, cfg, fallback,
                   retPath, retStatus, history, calls>>

\* one call of Dir, one call of File
DirCallOnce == calls = 0 /\ DirCall
FileCallOnce == calls = 0 /\ FileCall

NextChange ==
    \/ DirCallOnce
    \/ FileCallOnce
    \/ list
    \/ listWithXDG
    \/ listWithNoXDG
    \/ listHome
    \/ List
    \/ ListWithXDG
    \/ ListWithNoXDG
    \/ ListHome
    \/ DirReturn
    \/ FileReturn
    \/ FsChange

SpecChange == Init /\ [][NextChange]_vars

(***************************************************************************)
(* Two goroutines calling Dir and File: the scheduler takes the running    *)
(* call off the processor and puts the other one on. The lookups and the   *)
(* file system are the same for both.                                      *)
(***************************************************************************)
\* Switch with fallback a package variable: it stays when the call changes
Switch_SharedFallback ==
    /\ pc \notin {"idle", "done"} \/ other.pc \notin {"idle", "done"}
    /\ other' = Frame
    /\ pc' = other.pc
    /\ fn' = other.fn
    /\ app' = other.app
    /\ name' = other.name
    /\ cfg' = other.cfg
    /\ fallback' = fallback
    /\ retPath' = other.retPath
    /\ retStatus' = other.retStatus
    /\ log' = other.log
    /\ UNCHANGED <<xdgEnv, homeEnv, fs, history, calls>>

Switch ==
    /\ pc \notin {"idle", "done"} \/ other.pc \notin {"idle", "done"}
    /\ other' = Frame
    /\ pc' = other.pc
    /\ fn' = other.fn
    /\ app' = other.app
    /\ name' = other.name
    /\ cfg' = other.cfg
    /\ fallback' = other.fallback
    /\ retPath' = other.retPath
    /\ retStatus' = other.retStatus
    /\ log' = other.log
    /\ UNCHANGED <<xdgEnv, homeEnv, fs, history, calls>>

NextConc ==
    \/ DirCall
    \/ FileCall
    \/ list
    \/ listWithXDG
    \/ listWithNoXDG
    \/ listHome
    \/ List
    \/ ListWithXDG
    \/ ListWithNoXDG
    \/ ListHome
    \/ DirReturn
    \/ FileReturn
    \/ Switch

SpecConc == Init /\ [][NextConc]_vars

(***************************************************************************)
(* Definitions used to state the properties.                               *)
(***************************************************************************)
\* the yield events of the running call and the candidates yielded
Yields == SelectSeq(log, LAMBDA e : e.op = "yield")
YieldedPaths == [i \in 1..Len(Yields) |-> Yields[i].path]

\* the running call has returned
DirDone == pc = "done" /\ fn = "Dir"
FileDone == pc = "done" /\ fn = "File"

\* the environment has a home directory; it has neither XDG nor home
HomeOk == ~homeEnv.err
EmptyEnv == xdgEnv = <<>> /\ homeEnv.err

\* the documented candidate sequence of directory mode for application a
FullDirSeq(a) ==
    LET xdg == xdgEnv
        home == homeEnv.dir
    IN  CASE xdg # <<>> /\ HomeOk ->
                << Join(<<xdg, a>>), Join(<<home, Lib, a>>),
                   Join(<<home, <<".">> \o a>>) >>
          [] xdg # <<>> /\ ~HomeOk -> << Join(<<xdg, a>>) >>
          [] xdg = <<>> /\ HomeOk ->
                << Join(<<home, DotConfig, a>>), Join(<<home, Lib, a>>),
                   Join(<<home, <<".">> \o a>>) >>
          [] OTHER -> <<>>

\* the documented candidate sequence of file mode for application a and
\* normalized file name file: file appended to each directory candidate, then
\* home/.a+ext when there is a home directory
FullFileSeq(a, file) ==
    LET dirs == FullDirSeq(a) IN
    [i \in 1..Len(dirs) |-> Join(<<dirs[i], file>>)]
        \o (IF HomeOk THEN << Join(<<homeEnv.dir, <<".">> \o a \o Ext(file)>>) >>
            ELSE <<>>)

Min(S) == CHOOSE m \in S : \A n \in S : m <= n

\* The predicates on the file system as far as it is known: a path that was
\* never looked at may hold anything.
MayBeDir(p) == \E d \in dirExists(fs, p) : d.exist
IsDir(p) == \A d \in dirExists(fs, p) : d.exist
NotDir(p) == \A d \in dirExists(fs, p) : ~d.exist
MayBeFile(p) == \E c \in checkFile(fs, p) : c.status = FileExists
IsFile(p) == \A c \in checkFile(fs, p) : c.status = FileExists
NotFile(p) == \A c \in checkFile(fs, p) : c.status # FileExists

\* Seq is resolved in order: if some candidate of seq may exist, the first
\* such candidate does exist and is the one returned, with status found
FirstHit(seq, May(_), Is(_), found) ==
    LET hits == { i \in 1..Len(seq) : May(seq[i]) } IN
    hits # {} =>
        LET first == seq[Min(hits)] IN
        /\ Is(first)
        /\ retPath = first
        /\ retStatus = found

(***************************************************************************)
(* C1. Order property: when Dir or File returns and some candidate of the  *)
(* candidate sequence exists (a directory, resp. a file with status        *)
(* FileExists), the result is the existing candidate of smallest index,    *)
(* with true resp. FileExists; never a later one.                          *)
(***************************************************************************)
C1_Order ==
    /\ DirDone =>
           LET seq == FullDirSeq(app) IN FirstHit(seq, MayBeDir, IsDir, TRUE)
    /\ FileDone =>
           LET seq == FullFileSeq(app, cfg.File) IN
           FirstHit(seq, MayBeFile, IsFile, FileExists)

\* Dir returned the second candidate while the third, another path, exists too
C1_Witness ==
    /\ DirDone
    /\ LET seq == FullDirSeq(app) IN
       /\ Len(seq) = 3
       /\ NotDir(seq[1])
       /\ IsDir(seq[2])
       /\ IsDir(seq[3])
       /\ seq[2] # seq[3]
       /\ retPath = seq[2]

(***************************************************************************)
(* C2. Dir's first-candidate fallback: when Dir returns, the candidate     *)
(* sequence is not empty and no candidate is a directory, the result is    *)
(* the first candidate and false.                                          *)
(***************************************************************************)
C2_DirFallback ==
    DirDone =>
        LET seq == FullDirSeq(app) IN
        (seq # <<>> /\ \A i \in 1..Len(seq) : NotDir(seq[i]))
        => (retPath = seq[1] /\ retStatus = FALSE)

\* three different candidates, none a directory
C2_Witness ==
    /\ DirDone
    /\ LET seq == FullDirSeq(app) IN
       /\ Len(seq) = 3
       /\ \A i \in 1..3 : NotDir(seq[i])
       /\ seq[1] # seq[3]
       /\ retPath = seq[1]
       /\ retStatus = FALSE

(***************************************************************************)
(* C3. File's first-candidate fallback: when File returns, the candidate   *)
(* sequence is not empty and no candidate has status FileExists, the       *)
(* result is the first candidate with that candidate's own status, which   *)
(* is NotExists or BaseExists.                                             *)
(***************************************************************************)
C3_FileFallback ==
    FileDone =>
        LET seq == FullFileSeq(app, cfg.File) IN
        (seq # <<>> /\ \A i \in 1..Len(seq) : NotFile(seq[i]))
        => /\ retPath = seq[1]
           /\ \A c \in checkFile(fs, seq[1]) : c.status = retStatus
           /\ retStatus \in {NotExists, BaseExists}

\* four candidates, none a file, the first with its directory present
C3_Witness ==
    /\ FileDone
    /\ LET seq == FullFileSeq(app, cfg.File) IN
       /\ Len(seq) = 4
       /\ \A i \in 1..4 : NotFile(seq[i])
       /\ retPath = seq[1]
       /\ retStatus = BaseExists

(***************************************************************************)
(* C4. Empty environment, Dir: with no XDG value and no home directory Dir *)
(* returns ".app", and true exactly when ".app" is a directory.            *)
(***************************************************************************)
C4_EmptyEnvDir ==
    (DirDone /\ EmptyEnv) =>
        LET local == <<".">> \o app IN
        /\ retPath = local
        /\ \/ retStatus = TRUE /\ IsDir(local)
           \/ retStatus = FALSE /\ NotDir(local)

\* the local directory exists and Dir says so
C4_Witness ==
    /\ DirDone
    /\ EmptyEnv
    /\ retPath = <<".">> \o app
    /\ retStatus = TRUE

\* the file name File looks for: the last element of name, or the application
\* name when that element is "." or "/"
NormalName(a, n) ==
    IF Base(n) \in { <<".">>, <<Sep>> } THEN a ELSE Base(n)

(***************************************************************************)
(* C5. Empty environment, File: with no XDG value and no home directory    *)
(* File returns ".app/file" with FileExists if that path exists, and else  *)
(* ".app"+ext with the status of that path, file being the normalized file *)
(* name and ext its extension.                                             *)
(***************************************************************************)
C5_EmptyEnvFile ==
    (FileDone /\ EmptyEnv) =>
        LET file == NormalName(app, name)
            inDir == <<".">> \o app \o <<Sep>> \o file
            withExt == <<".">> \o app \o Ext(file)
        IN  \/ IsFile(inDir) /\ retPath = inDir /\ retStatus = FileExists
            \/ /\ NotFile(inDir)
               /\ retPath = withExt
               /\ \A c \in checkFile(fs, withExt) : c.status = retStatus

\* File(app, "p/c.y") finds no ".app/c.y" and returns ".app.y", whose
\* directory exists
C5_Witness ==
    /\ FileDone
    /\ EmptyEnv
    /\ name = <<"p", Sep, "c", ".", "y">>
    /\ NotFile(<<".">> \o app \o <<Sep, "c", ".", "y">>)
    /\ retPath = <<".">> \o app \o <<".", "y">>
    /\ retStatus = BaseExists

\* ys is a prefix of seq
IsPrefix(ys, seq) ==
    /\ Len(ys) <= Len(seq)
    /\ \A i \in 1..Len(ys) : ys[i] = seq[i]

\* the generator has returned and the consumer never answered stop
FullyConsumed ==
    /\ pc \in {"afterLoop", "done"}
    /\ \A i \in 1..Len(Yields) : Yields[i].out

(***************************************************************************)
(* C6. The directory generator yields the candidates of FullDirSeq in that *)
(* order and no others: [xdg/app, home/lib/app, home/.app] with XDG and    *)
(* home, [xdg/app] with XDG and no home, [home/.config/app, home/lib/app,  *)
(* home/.app] with home and no XDG, nothing with neither; all of them when *)
(* the consumer never stops.                                               *)
(***************************************************************************)
C6_DirSequence ==
    fn \in {"Dir", "list"} =>
        LET seq == FullDirSeq(app) IN
        /\ IsPrefix(YieldedPaths, seq)
        /\ FullyConsumed => YieldedPaths = seq

\* a test has consumed the three candidates of an environment with XDG and home
C6_Witness ==
    /\ fn = "list"
    /\ pc = "done"
    /\ xdgEnv = <<Sep, "x">>
    /\ HomeOk
    /\ FullyConsumed
    /\ Len(YieldedPaths) = 3

(***************************************************************************)
(* C7. The file generator yields the candidates of FullFileSeq in that     *)
(* order and no others: the directory candidates with the normalized file  *)
(* name appended, then home/.app+ext when there is a home directory; all   *)
(* of them when the consumer never stops.                                  *)
(***************************************************************************)
C7_FileSequence ==
    fn \in {"File", "List"} =>
        LET seq == FullFileSeq(app, NormalName(app, name)) IN
        /\ IsPrefix(YieldedPaths, seq)
        /\ FullyConsumed => YieldedPaths = seq

\* a test has consumed the four candidates of "c.y" with home and no XDG
C7_Witness ==
    /\ fn = "List"
    /\ pc = "done"
    /\ xdgEnv = <<>>
    /\ HomeOk
    /\ name = <<"c", ".", "y">>
    /\ FullyConsumed
    /\ Len(YieldedPaths) = 4
    /\ YieldedPaths[4] = homeEnv.dir \o <<Sep, ".">> \o app \o <<".", "y">>

(***************************************************************************)
(* C8. Sentinel file name: File(app, ".") and File(app, "/") return what   *)
(* File(app, app) returns on the same environment and file system; the     *)
(* file name looked for is the last element of name, or app when that      *)
(* element is "." or "/".                                                  *)
(***************************************************************************)
C8_Sentinel ==
    /\ fn \in {"File", "List"} => cfg.File = NormalName(app, name)
    /\ \A i, j \in 1..Len(history) :
          (/\ history[i].fn = "File"
           /\ history[j].fn = "File"
           /\ history[i].app = history[j].app
           /\ history[i].name \in { <<".">>, <<Sep>> }
           /\ history[j].name = history[j].app)
          => /\ history[i].path = history[j].path
             /\ history[i].status = history[j].status

\* File(app, "/") and then File(app, app) both found the file app
C8_Witness ==
    /\ Len(history) = 2
    /\ history[1].fn = "File"
    /\ history[2].fn = "File"
    /\ history[1].name = <<Sep>>
    /\ history[2].name = history[2].app
    /\ history[1].app = history[2].app
    /\ history[1].path = history[2].path
    /\ history[1].status = FileExists
    /\ history[2].status = FileExists

(***************************************************************************)
(* C9. File tries the current-directory locations .app/name and .app+ext   *)
(* whenever none of its other locations holds the file, in every           *)
(* environment. (This is the documentation of File; File does so only in   *)
(* the environment with neither XDG nor home.)                             *)
(***************************************************************************)
C9_LocalAlwaysTried ==
    FileDone =>
        LET seq == FullFileSeq(app, cfg.File) IN
        (\A i \in 1..Len(seq) : NotFile(seq[i]))
        => \E k \in 1..Len(log) :
              /\ log[k].op = "checkFile"
              /\ log[k].path = localFile(app, cfg)

(***************************************************************************)
(* C10. Early termination: once yield has returned false the generator     *)
(* makes no further call: no yield, no home lookup. A yield that returned  *)
(* false is the last event of the call.                                    *)
(***************************************************************************)
C10_EarlyTermination ==
    \A i \in 1..Len(log) :
        (log[i].op = "yield" /\ log[i].out = FALSE) => i = Len(log)

\* with XDG and home, a consumer stopped at the first candidate: one
\* candidate, and the home directory was never looked up
C10_Witness ==
    /\ fn \in {"list", "List"}
    /\ pc = "done"
    /\ xdgEnv # <<>>
    /\ HomeOk
    /\ Len(Yields) = 1
    /\ Yields[1].out = FALSE
    /\ \A i \in 1..Len(log) : log[i].op # "userHomeDir"

\* os.Stat succeeds on p, fails on p, on the file system as far as known
Statable(p) == p \in DOMAIN fs /\ fs[p] # "none"
Absent(p) == p \in DOMAIN fs /\ fs[p] = "none"

\* the calls of checkFile made by the running call
FileChecks == SelectSeq(log, LAMBDA e : e.op = "checkFile")

(***************************************************************************)
(* C11. checkFile is a three-way answer: FileExists exactly when the path  *)
(* itself can be stat-ed, whatever kind of entry it is; else BaseExists    *)
(* exactly when its directory can; else NotExists. One of the three holds, *)
(* and FileExists wins over BaseExists.                                    *)
(***************************************************************************)
C11_CheckFile ==
    \A i \in 1..Len(FileChecks) :
        LET p == FileChecks[i].path
            out == FileChecks[i].out
        IN  /\ out \in {NotExists, BaseExists, FileExists}
            /\ (out = FileExists) <=> Statable(p)
            /\ (out = BaseExists) <=> (Absent(p) /\ Statable(filepathDir(p)))
            /\ (out = NotExists) <=> (Absent(p) /\ Absent(filepathDir(p)))

\* one call has seen the three answers, FileExists for a directory whose
\* own directory exists too
C11_Witness ==
    /\ \E i \in 1..Len(FileChecks) : FileChecks[i].out = NotExists
    /\ \E i \in 1..Len(FileChecks) : FileChecks[i].out = BaseExists
    /\ \E i \in 1..Len(FileChecks) :
          /\ FileChecks[i].out = FileExists
          /\ fs[FileChecks[i].path] = "dir"
          /\ Statable(filepathDir(FileChecks[i].path))

\* a call of Dir or File is running
Running == fn \in {"Dir", "File"} /\ pc \notin {"idle", "done"}

\* the calls of the existence predicates made by the running call
Checks == SelectSeq(log, LAMBDA e : e.op \in {"dirExists", "checkFile"})

\* the running call's lookup of the home directory failed
HomeFailed ==
    \E i \in 1..Len(log) : log[i].op = "userHomeDir" /\ log[i].out = TRUE

\* the control points of Dir and of File from which the code has a next step
DirPcs == {"list", "listWithXDG", "listWithNoXDG", "listHome", "listHomeDot",
           "afterLoop"}
FilePcs == {"List", "ListWithXDG", "ListWithNoXDG", "ListHome", "ListHomeDot",
            "ListHomeExt", "afterLoop"}

\* every path the running call can hand to its predicate
Candidates ==
    IF fn = "Dir"
    THEN LET seq == FullDirSeq(app) IN
         {seq[i] : i \in 1..Len(seq)} \cup {localDir(app)}
    ELSE LET seq == FullFileSeq(app, cfg.File) IN
         {seq[i] : i \in 1..Len(seq)}
             \cup {localFile(app, cfg), localExtFile(app, cfg)}

\* the running call is at a control point of its code, where the predicate
\* has an answer for whichever candidate comes next
CanStep ==
    /\ fn = "Dir" => pc \in DirPcs /\ \A p \in Candidates : dirExists(fs, p) # {}
    /\ fn = "File" => pc \in FilePcs /\ \A p \in Candidates : checkFile(fs, p) # {}

\* how far a call has come: the position of its control point in the code
Rank(p) ==
    CASE p \in {"list", "List"} -> 1
      [] p \in {"listWithXDG", "ListWithXDG"} -> 2
      [] p \in {"listWithNoXDG", "ListWithNoXDG"} -> 3
      [] p \in {"listHome", "ListHome"} -> 4
      [] p \in {"listHomeDot", "ListHomeDot"} -> 5
      [] p = "ListHomeExt" -> 6
      [] p = "afterLoop" -> 7
      [] p = "done" -> 8
      [] OTHER -> 0

(***************************************************************************)
(* C12. Never abort: a call of Dir or File that has started is always at a *)
(* control point from which it goes on, every step moves it forward in the *)
(* code (so it returns after at most eight steps and five calls of its     *)
(* predicate), and it returns a path that is not empty; a failed home      *)
(* lookup takes away the candidates under home and does nothing else.      *)
(***************************************************************************)
C12_NeverAbort ==
    /\ [](Running => CanStep)
    /\ [][Running => Rank(pc') > Rank(pc)]_pc
    /\ [](fn \in {"Dir", "File"} => Len(Checks) <= 5)
    /\ [](HomeFailed => Len(Yields) <= 1)
    /\ []((DirDone \/ FileDone) => retPath # <<>>)

\* a call whose home lookup failed has returned a path
C12_Witness ==
    /\ DirDone \/ FileDone
    /\ HomeFailed
    /\ retPath # <<>>
    /\ Len(Yields) <= 1

(***************************************************************************)
(* C14. Result consistency: on a file system that does not change, what a  *)
(* call returns with its path is what the predicate says of that path: the *)
(* boolean of Dir is dirExists of the returned path and the status of File *)
(* is checkFile of the returned path, whether the path is a hit, the first *)
(* candidate taken as fallback, or the local fallback.                     *)
(***************************************************************************)
C14_ResultConsistent ==
    /\ DirDone => \A d \in dirExists(fs, retPath) : d.exist = retStatus
    /\ FileDone => \A c \in checkFile(fs, retPath) : c.status = retStatus

\* File has returned its first candidate, which is not there while its
\* directory is, after a second candidate that was no hit either
C14_Witness ==
    /\ FileDone
    /\ Len(Yields) >= 2
    /\ retPath = Yields[1].path
    /\ retStatus = BaseExists
    /\ checkFile(fs, retPath) # {}

\* the running call is File and its normalized file name has no extension
ExtLess == fn = "File" /\ Ext(cfg.File) = <<>>

(***************************************************************************)
(* C16. File names without extension: when the normalized file name has an *)
(* empty extension, the candidates home/.app+ext and .app+ext are the      *)
(* directories home/.app and .app. Where such a path is a candidate of the *)
(* call (home/.app with a home directory, .app with nothing yielded), File *)
(* returns it with FileExists as soon as anything exists there, the        *)
(* directory itself included, and no earlier candidate is FileExists; the  *)
(* returned path then does not end in the file name.                       *)
(***************************************************************************)
C16_ExtensionLess ==
    ExtLess =>
        /\ localExtFile(app, cfg) = localDir(app)
        /\ HomeOk => (homeExtFile(homeEnv.dir, cfg) = homeDotDir(homeEnv.dir, app))
        /\ (FileDone /\ HomeOk) =>
              LET seq == FullFileSeq(app, cfg.File)
                  last == seq[Len(seq)]
              IN  /\ last = homeDotDir(homeEnv.dir, app)
                  /\ ( Statable(last)
                       /\ \A i \in 1..(Len(seq) - 1) : Absent(seq[i]) )
                     => ( /\ retPath = last
                          /\ retStatus = FileExists
                          /\ Base(retPath) # cfg.File )
        /\ (FileDone /\ EmptyEnv) =>
              ( ( Absent(localFile(app, cfg)) /\ Statable(localDir(app)) )
                => ( /\ retPath = localDir(app)
                     /\ retStatus = FileExists
                     /\ Base(retPath) # cfg.File ) )

\* File has returned the directory home/.app as an existing file
C16_Witness ==
    /\ FileDone
    /\ ExtLess
    /\ HomeOk
    /\ retPath = homeDotDir(homeEnv.dir, app)
    /\ retStatus = FileExists
    /\ fs[retPath] = "dir"
    /\ Base(retPath) # cfg.File

\* the calls of dirExists made by the running call
DirChecks == SelectSeq(log, LAMBDA e : e.op = "dirExists")

\* the last thing the running call did
LastEvent == log[Len(log)]

(***************************************************************************)
(* C15. Number of predicate calls. Dir calls dirExists once per candidate  *)
(* it is given: k times when the k-th candidate is the first that exists,  *)
(* n times when none of its n >= 1 candidates exists (the false it returns *)
(* is not looked up again), and once, on ".app", when there is no          *)
(* candidate. File calls checkFile k times when the k-th candidate is the  *)
(* first FileExists, and n+1 times when none of its n >= 1 candidates is:  *)
(* the last call is a second one on the first candidate, made after all    *)
(* candidates were checked, and its answer is the returned status, not the *)
(* answer seen in the loop. This holds also when the file system changes   *)
(* while the call runs.                                                    *)
(***************************************************************************)
C15_CheckCount ==
    LET n == Len(Yields) IN
    /\ DirDone =>
          /\ \A i \in 1..n : DirChecks[i].path = Yields[i].path
          /\ \A i \in 1..(n - 1) : DirChecks[i].out = FALSE
          /\ IF n = 0
             THEN /\ Len(DirChecks) = 1
                  /\ DirChecks[1].path = localDir(app)
                  /\ retStatus = DirChecks[1].out
             ELSE /\ Len(DirChecks) = n
                  /\ IF DirChecks[n].out
                     THEN retStatus /\ retPath = Yields[n].path
                     ELSE /\ n = Len(FullDirSeq(app))
                          /\ ~retStatus
                          /\ retPath = Yields[1].path
    /\ FileDone =>
          /\ \A i \in 1..n : FileChecks[i].path = Yields[i].path
          /\ \A i \in 1..(n - 1) : FileChecks[i].out # FileExists
          /\ IF n = 0
             THEN Len(FileChecks) \in {1, 2}
             ELSE IF FileChecks[n].out = FileExists
                  THEN /\ Len(FileChecks) = n
                       /\ retStatus = FileExists
                       /\ retPath = Yields[n].path
                  ELSE /\ n = Len(FullFileSeq(app, cfg.File))
                       /\ Len(FileChecks) = n + 1
                       /\ LastEvent = FileChecks[n + 1]
                       /\ FileChecks[n + 1].path = Yields[1].path
                       /\ retPath = Yields[1].path
                       /\ retStatus = FileChecks[n + 1].out

\* the file system changed between the two calls of checkFile on the first
\* candidate, and File has returned a status it did not see in its loop
C15_Witness ==
    /\ FileDone
    /\ Len(Yields) >= 2
    /\ Len(FileChecks) = Len(Yields) + 1
    /\ Len(Changes) = 1
    /\ retPath = Yields[1].path
    /\ FileChecks[1].path = retPath
    /\ FileChecks[1].out # retStatus

\* the candidates a call is given when the first of seq that Hit holds for
\* stops it, and the one that stops it
UpToHit(seq, Hit(_)) ==
    LET hits == { i \in 1..Len(seq) : Hit(seq[i]) } IN
    IF hits = {} THEN seq ELSE SubSeq(seq, 1, Min(hits))

(***************************************************************************)
(* C13. Isolation of calls: with the lookups and the file system the same  *)
(* throughout, a call of Dir or File that ran interleaved with another     *)
(* call, of another goroutine or an earlier one, was given the candidates  *)
(* and returns the result that its arguments, the lookups and the file     *)
(* system determine, which is what it gets when it runs alone; two calls   *)
(* with the same arguments return the same.                                *)
(***************************************************************************)
C13_Isolation ==
    /\ DirDone =>
          LET seq == FullDirSeq(app)
              given == UpToHit(seq, IsDir)
          IN  /\ YieldedPaths = given
              /\ retPath = ( IF seq = <<>> THEN localDir(app)
                             ELSE IF IsDir(given[Len(given)])
                                  THEN given[Len(given)] ELSE seq[1] )
              /\ retStatus = IsDir(retPath)
    /\ FileDone =>
          LET seq == FullFileSeq(app, cfg.File)
              given == UpToHit(seq, IsFile)
          IN  /\ YieldedPaths = given
              /\ retPath = ( IF seq = <<>>
                             THEN IF IsFile(localFile(app, cfg))
                                  THEN localFile(app, cfg)
                                  ELSE localExtFile(app, cfg)
                             ELSE IF IsFile(given[Len(given)])
                                  THEN given[Len(given)] ELSE seq[1] )
              /\ \A c \in checkFile(fs, retPath) : c.status = retStatus
    /\ \A i, j \in 1..Len(history) :
          ( /\ history[i].fn = history[j].fn
            /\ history[i].app = history[j].app
            /\ history[i].name = history[j].name )
          => ( /\ history[i].path = history[j].path
               /\ history[i].status = history[j].status )

\* Dir has returned its first candidate, having seen two, while a call of
\* File by the other goroutine is held between two of its candidates
C13_Witness ==
    /\ DirDone
    /\ Len(Yields) >= 2
    /\ retPath = Yields[1].path
    /\ other.fn = "File"
    /\ other.pc \in {"ListHome", "ListHomeDot", "ListHomeExt"}
    /\ other.fallback # <<>>

====
